---- MODULE Spec2Model ----
(***************************************************************************)
(* Liftoff backend: the workout store and the session engine               *)
(* (backend/repository/session.go, backend/main.go) over the five tables   *)
(* workouts, exercises, workout_sessions, session_exercises and            *)
(* exercise_sets, on either storage backend.                               *)
(*                                                                         *)
(* Every request handler is one action, except the two that read and then  *)
(* write without a transaction: POST /sessions                             *)
(* (CreateSessionWithExercises) issues one storage statement per step, and *)
(* PUT /exercise-sets/:id/complete (CompleteExerciseSet) is a read step    *)
(* and a write step, so that other requests interleave with them.          *)
(*                                                                         *)
(* Around them: the startup of main() that chooses the storage backend     *)
(* (database.NewDatabase), the AuthMiddleware in front of the routes       *)
(* (backend/auth) and the AuthProvider of the frontend                     *)
(* (frontend/src/context/AuthContext.tsx) with the API client's 401        *)
(* handling, each with a specification of its own.                         *)
(***************************************************************************)
EXTENDS Integers, Sequences, FiniteSets, TLC

\* ------------------------------------------------------------------ bounds
\* The handlers themselves are unbounded; the next-state relations below
\* stop issuing requests once these many rows, clock ticks or open requests
\* exist.
MaxWorkouts == 2
MaxExercises == 2
MaxSessions == 2
MaxSessionExercises == 1
MaxSets == 1
MaxTime == 4
MaxInflight == 2
MaxHistorySessions == 3
MaxHistoryTime == 6
MaxAuthTime == 4
MaxClock == 5

\* ------------------------------------------------------------------ inputs
Users == {"u1", "u2"}
NoId == 0
NullTime == 0
NilNotes == "<nil>"
\* POST /exercises bodies <<name, sets, reps, weight>>: two valid plans and
\* one body per way of being invalid
ExerciseInputs ==
    {<<"Bench", 2, 5, 100>>, <<"Squat", 1, 5, 0>>,
     <<"", 1, 5, 100>>, <<"Bench", 0, 5, 100>>, <<"Bench", -1, 5, 100>>,
     <<"Bench", 1, 0, 100>>, <<"Bench", 1, -1, 100>>, <<"Bench", 1, 5, -1>>}
\* POST /exercise-sets bodies <<reps, weight>>
SetInputs == {<<5, 100>>}
\* PUT /exercise-sets/:id bodies <<reps, weight, notes>>
LogSetInputs ==
    {<<3, 120, "pr">>, <<3, 120, NilNotes>>, <<0, 120, NilNotes>>,
     <<3, 0, NilNotes>>}
\* PUT /exercise-sets/:id/complete bodies
SetIndexes == -1 .. 2
\* the exercise names of the plans, in ascending order
ExerciseNames == <<"Bench", "Squat">>

VARIABLES
    useSQLite,          \* Database.useSQLite, fixed at startup
    workouts,           \* table workouts
    exercises,          \* table exercises
    sessions,           \* table workout_sessions
    sessionExercises,   \* table session_exercises
    exerciseSets,       \* table exercise_sets
    nextId,             \* uuid.New(): next fresh id per table
    now,                \* time.Now()
    inflight,           \* POST /sessions requests between two statements
    completing,         \* PUT .../complete requests between read and write
    boot,               \* main(): how far NewDatabase and the repositories are
    request,            \* a request on its way through AuthMiddleware
    auth                \* the frontend: AuthProvider's state and localStorage

vars == <<useSQLite, workouts, exercises, sessions, sessionExercises,
          exerciseSets, nextId, now, inflight, completing, boot, request,
          auth>>

\* what lies around the repositories
edge == <<boot, request, auth>>

tables == <<workouts, exercises, sessions, sessionExercises, exerciseSets>>

\* ------------------------------------------------------------------ helpers
Ids(T) == {r.id : r \in T}

Row(T, id) == CHOOSE r \in T : r.id = id

MinId(S) == CHOOSE r \in S : \A q \in S : r.id <= q.id

\* ORDER BY created_at ASC: rows are created with increasing ids
RECURSIVE OrderByCreatedAt(_)
OrderByCreatedAt(S) ==
    IF S = {} THEN <<>>
    ELSE LET m == MinId(S) IN <<m>> \o OrderByCreatedAt(S \ {m})

NoBody == <<>>

\* what a handler writes with c.JSON: the status code, the "error" message
\* of an error body, and the body of a success
Response(code, error, body) ==
    [code |-> code, error |-> error, body |-> body]

\* ------------------------------------------------------------------ schema
\* exercises.workout_id REFERENCES workouts(id) ON DELETE CASCADE, and so on
\* down the chain.  The relational server enforces the references; the
\* embedded database is opened without foreign-key enforcement.
EnforcesForeignKeys == ~useSQLite

CascadeSessions(ws) ==
    {s \in sessions : s.workout_id \in Ids(ws)}

CascadeSessionExercises(ss, es) ==
    {se \in sessionExercises :
        se.session_id \in Ids(ss) \/ se.exercise_id \in Ids(es)}

CascadeExerciseSets(ses) ==
    {x \in exerciseSets : x.session_exercise_id \in Ids(ses)}

\* ------------------------------------------------------------------ startup
\* A handle (*pgxpool.Pool, *sql.DB) is TRUE when it is open and FALSE when
\* it is nil.

\* the repository keeps the handle of the backend that flag names
NewWorkoutRepository(db, sqlite, flag) ==
    IF flag THEN [db |-> FALSE, sqlite |-> sqlite, useSQLite |-> TRUE]
    ELSE [db |-> db, sqlite |-> FALSE, useSQLite |-> FALSE]

\* a repository built for the relational server whatever was chosen
NewSessionRepositoryPostgresOnly(db, sqlite, flag) ==
    [db |-> db, sqlite |-> FALSE, useSQLite |-> FALSE]

NewSessionRepository(db, sqlite, flag) ==
    IF flag THEN [db |-> FALSE, sqlite |-> sqlite, useSQLite |-> TRUE]
    ELSE [db |-> db, sqlite |-> FALSE, useSQLite |-> FALSE]

\* no repository has been built
NoRepository == [db |-> FALSE, sqlite |-> FALSE, useSQLite |-> FALSE]

\* main() before its first statement: config, pool and ping record which
\* steps of NewDatabase succeeded, db is the Database that NewDatabase
\* returned (its useSQLite field is the variable useSQLite)
NotStarted ==
    [pc |-> "parseConfig", config |-> FALSE, pool |-> FALSE, ping |-> FALSE,
     schema |-> FALSE, db |-> [pool |-> FALSE, sqlite |-> FALSE],
     workoutRepo |-> NoRepository, sessionRepo |-> NoRepository]

\* main() serving requests on the backend that flag names
Started(flag) ==
    [pc |-> "serving", config |-> ~flag, pool |-> ~flag, ping |-> ~flag,
     schema |-> flag, db |-> [pool |-> ~flag, sqlite |-> flag],
     workoutRepo |-> NewWorkoutRepository(~flag, flag, flag),
     sessionRepo |-> NewSessionRepository(~flag, flag, flag)]

\* pgxpool.ParseConfig(connString)
ParseConfig(ok) ==
    /\ boot.pc = "parseConfig"
    /\ boot' = IF ok THEN [boot EXCEPT !.pc = "newPool", !.config = TRUE]
               ELSE [boot EXCEPT !.pc = "newSQLiteDatabase"]
    /\ UNCHANGED <<useSQLite, tables, nextId, now, inflight, completing,
                   request, auth>>

\* pgxpool.NewWithConfig(context.Background(), config)
NewWithConfig(ok) ==
    /\ boot.pc = "newPool"
    /\ boot' = IF ok THEN [boot EXCEPT !.pc = "ping", !.pool = TRUE]
               ELSE [boot EXCEPT !.pc = "newSQLiteDatabase"]
    /\ UNCHANGED <<useSQLite, tables, nextId, now, inflight, completing,
                   request, auth>>

\* pool.Ping(context.Background()), and on success
\* return &Database{pool: pool, useSQLite: false}
Ping(ok) ==
    /\ boot.pc = "ping"
    /\ IF ok
       THEN /\ boot' = [boot EXCEPT !.pc = "repositories", !.ping = TRUE,
                                    !.db = [pool |-> TRUE, sqlite |-> FALSE]]
            /\ useSQLite' = FALSE
       ELSE /\ boot' = [boot EXCEPT !.pc = "newSQLiteDatabase"]
            /\ UNCHANGED useSQLite
    /\ UNCHANGED <<tables, nextId, now, inflight, completing, request, auth>>

\* newSQLiteDatabase(): sql.Open, createSQLiteTables and
\* return &Database{sqlite: db, useSQLite: true}; an error of either call
\* makes main() end in log.Fatal
newSQLiteDatabase(opened, created) ==
    /\ boot.pc = "newSQLiteDatabase"
    /\ IF opened /\ created
       THEN /\ boot' = [boot EXCEPT !.pc = "repositories", !.schema = TRUE,
                                    !.db = [pool |-> FALSE, sqlite |-> TRUE]]
            /\ useSQLite' = TRUE
       ELSE /\ boot' = [boot EXCEPT !.pc = "exited"]
            /\ UNCHANGED useSQLite
    /\ UNCHANGED <<tables, nextId, now, inflight, completing, request, auth>>

\* main(): the repositories are built from db.GetPool(), db.GetSQLite() and
\* db.IsSQLite(), then the router serves
NewRepositories ==
    /\ boot.pc = "repositories"
    /\ boot' = [boot EXCEPT
                  !.pc = "serving",
                  !.workoutRepo =
                      NewWorkoutRepository(boot.db.pool, boot.db.sqlite,
                                           useSQLite),
                  !.sessionRepo =
                      NewSessionRepository(boot.db.pool, boot.db.sqlite,
                                           useSQLite)]
    /\ UNCHANGED <<useSQLite, tables, nextId, now, inflight, completing,
                   request, auth>>

\* ------------------------------------------------------------------ middleware
\* GetTokenConfig().Secret
Secret == "secret"

\* What jwt.ParseWithClaims decodes from a token string: the claims, the key
\* the signature was made with and the expiry.  A string outside the domain
\* is no JWT.
JWTs ==
    [t \in {"u1.exp2", "u1.exp3", "u2.exp3", "u2.exp4", "u1.forged"} |->
        CASE t = "u1.exp2" -> [user_id |-> "u1", key |-> Secret, exp |-> 2]
          [] t = "u1.exp3" -> [user_id |-> "u1", key |-> Secret, exp |-> 3]
          [] t = "u2.exp3" -> [user_id |-> "u2", key |-> Secret, exp |-> 3]
          [] t = "u2.exp4" -> [user_id |-> "u2", key |-> Secret, exp |-> 4]
          [] t = "u1.forged" -> [user_id |-> "u1", key |-> "guess", exp |-> 4]]

TokenStrings == DOMAIN JWTs \cup {"this.is.invalid", ""}

\* An Authorization header, as the words that single spaces separate; <<>>
\* is the request without the header.
Schemes == {"Bearer", "bearer", "BEARER", "notbearer"}

Headers ==
    {<<>>, <<"Bearer">>, <<"token123">>, <<"u1.exp3">>}
        \cup {<<w, t>> : w \in Schemes, t \in TokenStrings}
        \cup {<<"Bearer", t, "x">> : t \in DOMAIN JWTs}

\* strings.ToLower on a scheme
ToLower(word) == IF word \in {"Bearer", "BEARER"} THEN "bearer" ELSE word

\* strings.SplitN(authHeader, " ", 2): the first word and the rest of the
\* header in one piece; a rest of several words is a string with a space in
\* it, which no token string is
SplitN2(authHeader) ==
    IF Len(authHeader) <= 1 THEN authHeader
    ELSE <<authHeader[1],
           IF Len(authHeader) = 2 THEN authHeader[2] ELSE "with spaces">>

NoClaims == [UserID |-> ""]

\* a validation that does not look at the signature
ValidateTokenUnverified(tokenString) ==
    IF tokenString \in DOMAIN JWTs /\ now < JWTs[tokenString].exp
    THEN [err |-> "", claims |-> [UserID |-> JWTs[tokenString].user_id]]
    ELSE [err |-> "invalid or expired token", claims |-> NoClaims]

\* ValidateToken: the token parses, its signature verifies under the secret
\* and it has not expired
ValidateToken(tokenString) ==
    IF /\ tokenString \in DOMAIN JWTs
       /\ JWTs[tokenString].key = Secret
       /\ now < JWTs[tokenString].exp
    THEN [err |-> "", claims |-> [UserID |-> JWTs[tokenString].user_id]]
    ELSE [err |-> "invalid or expired token", claims |-> NoClaims]

\* AuthMiddleware on a header: the status it aborts with (0 when it calls
\* c.Next()) and the user id it puts into the context
AuthMiddlewareResult(authHeader) ==
    IF authHeader = <<>>
    THEN [status |-> 401, error |-> "Authorization header required",
          user_id |-> ""]
    ELSE LET parts == SplitN2(authHeader)
         IN IF Len(parts) /= 2 \/ ToLower(parts[1]) /= "bearer"
            THEN [status |-> 401, error |-> "Invalid authorization format",
                  user_id |-> ""]
            ELSE IF ValidateToken(parts[2]).err /= ""
            THEN [status |-> 401, error |-> "Invalid or expired token",
                  user_id |-> ""]
            ELSE [status |-> 0, error |-> "",
                  user_id |-> ValidateToken(parts[2]).claims.UserID]

\* no request is in the chain; ctx_user_id is what c.Set(UserIDKey, ...)
\* stored, ran tells whether the handler behind the middleware ran and
\* user_id is what GetUserID(c) gave it
NoRequest ==
    [pc |-> "idle", header |-> <<>>, status |-> 0, error |-> "",
     ctx_user_id |-> "", ran |-> FALSE, user_id |-> ""]

\* a request for a route of the authenticated group arrives
Receive(authHeader) ==
    /\ request.pc = "idle"
    /\ request' = [NoRequest EXCEPT !.pc = "middleware", !.header = authHeader]
    /\ UNCHANGED <<useSQLite, tables, nextId, now, inflight, completing, boot,
                   auth>>

\* AuthMiddleware
AuthMiddleware ==
    /\ request.pc = "middleware"
    /\ LET r == AuthMiddlewareResult(request.header)
       IN request' = IF r.status = 0
                     THEN [request EXCEPT !.pc = "handler",
                                          !.ctx_user_id = r.user_id]
                     ELSE [request EXCEPT !.pc = "done", !.status = r.status,
                                          !.error = r.error]
    /\ UNCHANGED <<useSQLite, tables, nextId, now, inflight, completing, boot,
                   auth>>

\* the handler behind the middleware: userID := GetUserID(c), then 200
Handler ==
    /\ request.pc = "handler"
    /\ request' = [request EXCEPT !.pc = "done", !.ran = TRUE,
                                  !.user_id = request.ctx_user_id,
                                  !.status = 200]
    /\ UNCHANGED <<useSQLite, tables, nextId, now, inflight, completing, boot,
                   auth>>

\* the response is written
Respond ==
    /\ request.pc = "done"
    /\ request' = NoRequest
    /\ UNCHANGED <<useSQLite, tables, nextId, now, inflight, completing, boot,
                   auth>>

\* time.Now() moves on
Tick ==
    /\ now' = now + 1
    /\ UNCHANGED <<useSQLite, tables, nextId, inflight, completing, edge>>

\* ------------------------------------------------------------------ frontend
\* Time in the browser is counted in ticks of the clock.  A day, the
\* lifetimes of the tokens and the idle interval keep their order: an idle
\* interval is shorter than a day, a token of a login without rememberMe
\* lives at most a day and a rememberMe token lives longer.
Day == 3
ShortLife == 2
LongLife == 5

\* the values of sessionTimeoutMinutes that Math.max(1, Math.min(.., minutes))
\* lets through, in ticks
Timeouts == 1 .. 2

AdminEmail == "admin@liftoff.local"

\* user: null
NoUser == [id |-> "", email |-> "", isAdmin |-> FALSE]

\* the users that /auth/login, /auth/register and /auth/me answer with
FrontUsers ==
    {[id |-> "u1", email |-> "user@example.com", isAdmin |-> FALSE],
     [id |-> "admin", email |-> AdminEmail, isAdmin |-> TRUE],
     [id |-> "admin", email |-> AdminEmail, isAdmin |-> FALSE]}

TokenOf(user) ==
    IF user.id = "admin" THEN "fake-admin-token" ELSE "fake-jwt-token"

\* StoredAuth; the first is the absent 'liftoff-auth' entry and the null
\* argument of storeAuth and applyAuth
NoStoredAuth == [token |-> "", user |-> NoUser, expiresAt |-> 0]

StoredAuth(token, user, expiresAt) ==
    [token |-> token, user |-> user, expiresAt |-> expiresAt]

\* the page is not open: mounted tells whether AuthProvider is mounted,
\* token, user and expiresAt are its state, stored is the 'liftoff-auth'
\* entry of localStorage, refreshing and refreshOf are the /auth/me request
\* of the mount effect and the stored auth its closure holds, timer is the
\* time the timeout behind idleTimerRef fires at (0: none), listening tells
\* whether resetIdleTimer is attached to the activity events, clock is
\* Date.now() and lastEvent the time the idle interval last began: the last
\* activity event or the last run of the idle effect
NoAuthProvider ==
    [mounted |-> FALSE, token |-> "", user |-> NoUser, expiresAt |-> 0,
     stored |-> NoStoredAuth, refreshing |-> FALSE, refreshOf |-> NoStoredAuth,
     timer |-> 0, listening |-> FALSE, sessionTimeoutMinutes |-> 1,
     clock |-> 0, lastEvent |-> 0]

\* isAuthenticated: !!token
isAuthenticated(a) == a.token /= ""

\* isAdmin: !!user?.isAdmin
isAdmin(a) == a.user /= NoUser /\ a.user.isAdmin

\* getStoredAuth(): the entry, unless it is absent or has expired, and an
\* expired entry is removed
getStoredAuth(a) ==
    IF a.stored = NoStoredAuth THEN [data |-> NoStoredAuth, a |-> a]
    ELSE IF a.stored.expiresAt /= 0 /\ a.stored.expiresAt < a.clock
    THEN [data |-> NoStoredAuth, a |-> [a EXCEPT !.stored = NoStoredAuth]]
    ELSE [data |-> a.stored, a |-> a]

\* storeAuth(data): setItem, or removeItem for null
storeAuth(a, data) == [a EXCEPT !.stored = data]

\* an applyAuth that leaves the user in place when it is given null
applyAuthKeepsUser(a, data) ==
    IF data = NoStoredAuth THEN [a EXCEPT !.token = "", !.expiresAt = 0]
    ELSE [a EXCEPT !.token = data.token, !.user = data.user,
                   !.expiresAt = data.expiresAt]

applyAuth(a, data) ==
    [a EXCEPT !.token = data.token, !.user = data.user,
              !.expiresAt = data.expiresAt]

\* The idle effect after a render in which token, user or
\* sessionTimeoutMinutes changed: the cleanup of the previous run, then the
\* effect itself, which arms the timer unless nobody is logged in, no
\* stored auth is left or the token has more than a day to live.
idleEffect(a) ==
    LET cleaned == [a EXCEPT !.timer = 0, !.listening = FALSE]
        got == getStoredAuth(cleaned)
    IN IF cleaned.token = "" \/ cleaned.user = NoUser THEN cleaned
       ELSE IF got.data = NoStoredAuth THEN got.a
       ELSE IF got.data.expiresAt - cleaned.clock > Day THEN got.a
       ELSE [got.a EXCEPT !.timer = cleaned.clock + a.sessionTimeoutMinutes,
                          !.listening = TRUE,
                          !.lastEvent = cleaned.clock]

Backend == <<useSQLite, tables, nextId, now, inflight, completing, boot,
             request>>

\* the page is opened: the mount effect applies the stored auth and asks
\* /auth/me for the user
Mount ==
    /\ ~auth.mounted
    /\ LET got == getStoredAuth([auth EXCEPT !.mounted = TRUE])
       IN auth' = IF got.data = NoStoredAuth THEN got.a
                  ELSE idleEffect([applyAuth(got.a, got.data) EXCEPT
                                      !.refreshing = TRUE,
                                      !.refreshOf = got.data,
                                      !.lastEvent = got.a.clock])
    /\ UNCHANGED Backend

\* the page is closed or reloaded: localStorage stays
Unmount ==
    /\ auth.mounted
    /\ auth' = [NoAuthProvider EXCEPT
                  !.stored = auth.stored, !.clock = auth.clock,
                  !.sessionTimeoutMinutes = auth.sessionTimeoutMinutes,
                  !.lastEvent = auth.lastEvent]
    /\ UNCHANGED Backend

\* the response to /auth/me arrives
RefreshResponse(ok, user) ==
    /\ auth.mounted /\ auth.refreshing
    /\ auth' =
        IF ok
        THEN LET updated == [auth.refreshOf EXCEPT !.user = user]
             IN idleEffect([applyAuth(storeAuth(auth, updated), updated)
                               EXCEPT !.refreshing = FALSE,
                                      !.lastEvent = auth.clock])
        ELSE [auth EXCEPT !.refreshing = FALSE]
    /\ UNCHANGED Backend

\* login(email, password, rememberMe), from the response on; a response
\* that is not ok throws and changes nothing
login(ok, user, rememberMe) ==
    /\ auth.mounted
    /\ auth' =
        IF ok
        THEN LET authData ==
                    StoredAuth(TokenOf(user), user,
                               auth.clock + IF rememberMe THEN LongLife
                                            ELSE ShortLife)
             IN idleEffect([applyAuth(storeAuth(auth, authData), authData)
                               EXCEPT !.lastEvent = auth.clock])
        ELSE auth
    /\ UNCHANGED Backend

\* register(email, password), from the response on
register(ok, user) ==
    /\ auth.mounted
    /\ auth' =
        IF ok
        THEN LET authData == StoredAuth(TokenOf(user), user,
                                        auth.clock + ShortLife)
             IN idleEffect([applyAuth(storeAuth(auth, authData), authData)
                               EXCEPT !.lastEvent = auth.clock])
        ELSE auth
    /\ UNCHANGED Backend

\* logout()
logout ==
    /\ auth.mounted
    /\ auth' = idleEffect(applyAuth(storeAuth([auth EXCEPT !.timer = 0],
                                              NoStoredAuth), NoStoredAuth))
    /\ UNCHANGED Backend

\* ApiService.request gets a response: on 401 it removes the entry and
\* dispatches 'liftoff:unauthorized', whose handler runs at once
ApiServiceRequest(status) ==
    /\ auth.mounted
    /\ auth' =
        IF status = 401
        THEN idleEffect(applyAuth(storeAuth([auth EXCEPT
                                                !.stored = NoStoredAuth],
                                            NoStoredAuth), NoStoredAuth))
        ELSE auth
    /\ UNCHANGED Backend

\* a mousedown, keydown, scroll or touchstart: resetIdleTimer, if attached
Activity ==
    /\ auth.mounted
    /\ auth' = IF auth.listening
               THEN [auth EXCEPT
                       !.timer = auth.clock + auth.sessionTimeoutMinutes,
                       !.lastEvent = auth.clock]
               ELSE [auth EXCEPT !.lastEvent = auth.clock]
    /\ UNCHANGED Backend

\* the callback of the idle timer
IdleTimeout ==
    /\ auth.mounted
    /\ auth.timer /= 0 /\ auth.clock >= auth.timer
    /\ auth' = idleEffect(applyAuth(storeAuth([auth EXCEPT !.timer = 0],
                                              NoStoredAuth), NoStoredAuth))
    /\ UNCHANGED Backend

\* updateSessionTimeout(minutes), for a value that differs from the current
updateSessionTimeout(value) ==
    /\ auth.mounted
    /\ value /= auth.sessionTimeoutMinutes
    /\ auth' = idleEffect([auth EXCEPT !.sessionTimeoutMinutes = value,
                                       !.lastEvent = auth.clock])
    /\ UNCHANGED Backend

\* Date.now() moves on; a timer that is due fires first
ClockTick ==
    /\ auth.timer = 0 \/ auth.clock < auth.timer
    /\ auth' = [auth EXCEPT !.clock = auth.clock + 1]
    /\ UNCHANGED Backend

\* ------------------------------------------------------------------ workout store
OwnsWorkout(userID, id) ==
    \E w \in workouts : w.id = id /\ w.user_id = userID

GetExercisesByWorkout(workoutID) ==
    OrderByCreatedAt({e \in exercises : e.workout_id = workoutID})

\* GetWorkout(ctx, userID, id): the workout with its exercises, or an error
GetWorkout(userID, id) ==
    IF OwnsWorkout(userID, id)
    THEN [err |-> "", workout |-> Row(workouts, id),
          exercises |-> GetExercisesByWorkout(id)]
    ELSE [err |-> "workout not found", workout |-> [id |-> NoId, user_id |-> ""],
          exercises |-> <<>>]

\* GetExercise(ctx, exerciseID): no caller identity
GetExercise(exerciseID) ==
    IF exerciseID \in Ids(exercises)
    THEN [err |-> "", exercise |-> Row(exercises, exerciseID)]
    ELSE [err |-> "failed to get exercise: no rows in result set",
          exercise |-> [id |-> NoId]]

Exercise(id, workoutID, name, sets, reps, weight) ==
    [id |-> id, workout_id |-> workoutID, name |-> name, sets |-> sets,
     reps |-> reps, weight |-> weight]

\* The stores the session engine is started on: u1 and u2 each own one
\* workout, and u2's plan has one exercise of one set.
InitWorkouts ==
    {[id |-> 1, user_id |-> "u1"], [id |-> 2, user_id |-> "u2"]}

\* u1's plan has no exercise, or one exercise of one set
InitExercises ==
    {{Exercise(1, 2, "Bench", 1, 5, 60)},
     {Exercise(1, 1, "Bench", 1, 5, 100), Exercise(2, 2, "Bench", 1, 5, 60)}}

\* u1's plan has no exercise, one exercise of two sets, or two exercises of
\* two sets and one set
StartExercises ==
    {{Exercise(1, 2, "Bench", 1, 5, 60)},
     {Exercise(1, 1, "Bench", 2, 5, 100), Exercise(2, 2, "Bench", 1, 5, 60)},
     {Exercise(1, 1, "Bench", 2, 5, 100), Exercise(2, 1, "Squat", 1, 8, 0),
      Exercise(3, 2, "Bench", 1, 5, 60)}}

InitTables(plans) ==
    /\ workouts = InitWorkouts
    /\ exercises \in plans
    /\ sessions = {}
    /\ sessionExercises = {}
    /\ exerciseSets = {}
    /\ nextId = [workout |-> Cardinality(workouts) + 1,
                 exercise |-> Cardinality(exercises) + 1,
                 session |-> 1, sessionExercise |-> 1, exerciseSet |-> 1]
    /\ now = 1
    /\ inflight = {}
    /\ completing = {}

\* the server is up on either backend; no request is in the middleware and no
\* browser has the frontend open
InitEdge ==
    /\ useSQLite \in BOOLEAN
    /\ boot = Started(useSQLite)
    /\ request = NoRequest
    /\ auth = NoAuthProvider

InitStore(plans) == InitEdge /\ InitTables(plans)

\* the tables of a fresh database
StoreInit ==
    /\ InitEdge
    /\ workouts = {}
    /\ exercises = {}
    /\ sessions = {}
    /\ sessionExercises = {}
    /\ exerciseSets = {}
    /\ nextId = [workout |-> 1, exercise |-> 1, session |-> 1,
                 sessionExercise |-> 1, exerciseSet |-> 1]
    /\ now = 1
    /\ inflight = {}
    /\ completing = {}

Init == InitStore(InitExercises)

StartInit == InitStore(StartExercises)

\* POST /workouts
CreateWorkout(userID) ==
    /\ workouts' = workouts \cup {[id |-> nextId.workout, user_id |-> userID]}
    /\ nextId' = [nextId EXCEPT !.workout = @ + 1]
    /\ UNCHANGED <<edge, useSQLite, exercises, sessions, sessionExercises,
                   exerciseSets, now, inflight, completing>>

\* POST /exercises: the binding of the request body (binding:"required"
\* rejects the zero value of a field)
BindExerciseInput(name, sets, reps, workoutID) ==
    name /= "" /\ sets /= 0 /\ reps /= 0 /\ workoutID /= NoId

\* name non-empty, sets >= 1, reps >= 1, weight >= 0
ValidExercise(name, sets, reps, weight) ==
    name /= "" /\ sets >= 1 /\ reps >= 1 /\ weight >= 0

CreateExerciseResponse(userID, workoutID, name, sets, reps, weight) ==
    IF ~BindExerciseInput(name, sets, reps, workoutID)
    THEN Response(400, "binding", NoBody)
    ELSE IF ~OwnsWorkout(userID, workoutID)
    THEN Response(500, "workout not found", NoBody)
    ELSE Response(201, "",
                  <<[id |-> nextId.exercise, workout_id |-> workoutID,
                     name |-> name, sets |-> sets, reps |-> reps,
                     weight |-> weight]>>)

\* POST /exercises
CreateExercise(userID, workoutID, name, sets, reps, weight) ==
    /\ LET r == CreateExerciseResponse(userID, workoutID, name, sets, reps,
                                       weight)
       IN IF r.code /= 201
          THEN UNCHANGED <<exercises, nextId>>
          ELSE /\ exercises' = exercises \cup {r.body[1]}
               /\ nextId' = [nextId EXCEPT !.exercise = @ + 1]
    /\ UNCHANGED <<edge, useSQLite, workouts, sessions, sessionExercises,
                   exerciseSets, now, inflight, completing>>

OwnsExercise(userID, id) ==
    \E e \in exercises : e.id = id /\ OwnsWorkout(userID, e.workout_id)

DeleteExerciseResponse(userID, id) ==
    IF OwnsExercise(userID, id)
    THEN Response(200, "", NoBody)
    ELSE Response(500, "exercise not found", NoBody)

\* DELETE /exercises/:id: DELETE FROM exercises WHERE id = ?
DeleteExercise(userID, id) ==
    /\ IF DeleteExerciseResponse(userID, id).code /= 200
       THEN UNCHANGED <<exercises, sessionExercises, exerciseSets>>
       ELSE LET es == {e \in exercises : e.id = id}
                ses == IF EnforcesForeignKeys
                       THEN CascadeSessionExercises({}, es) ELSE {}
            IN /\ exercises' = exercises \ es
               /\ sessionExercises' = sessionExercises \ ses
               /\ exerciseSets' = exerciseSets \ CascadeExerciseSets(ses)
    /\ UNCHANGED <<edge, useSQLite, workouts, sessions, nextId, now, inflight,
                   completing>>

DeleteWorkoutResponse(userID, id) ==
    IF OwnsWorkout(userID, id)
    THEN Response(200, "", NoBody)
    ELSE Response(500, "Failed to delete workout", NoBody)

\* DELETE /workouts/:id: DELETE FROM workouts WHERE id = ?, the rest is left
\* to the references of the schema
DeleteWorkout(userID, id) ==
    /\ IF DeleteWorkoutResponse(userID, id).code /= 200
       THEN UNCHANGED tables
       ELSE LET ws == {w \in workouts : w.id = id}
                es == IF EnforcesForeignKeys
                      THEN {e \in exercises : e.workout_id = id} ELSE {}
                ss == IF EnforcesForeignKeys THEN CascadeSessions(ws) ELSE {}
                ses == IF EnforcesForeignKeys
                       THEN CascadeSessionExercises(ss, es) ELSE {}
            IN /\ workouts' = workouts \ ws
               /\ exercises' = exercises \ es
               /\ sessions' = sessions \ ss
               /\ sessionExercises' = sessionExercises \ ses
               /\ exerciseSets' = exerciseSets \ CascadeExerciseSets(ses)
    /\ UNCHANGED <<edge, useSQLite, nextId, now, inflight, completing>>

\* ------------------------------------------------------------------ session engine
NoSession ==
    [id |-> NoId, user_id |-> "", workout_id |-> NoId, started_at |-> NullTime,
     ended_at |-> NullTime, is_active |-> FALSE]

\* a query that forgets the is_active filter
GetActiveSessionAnyState(userID) ==
    LET act == {s \in sessions : s.user_id = userID}
    IN IF act = {} THEN NoSession
       ELSE CHOOSE s \in act : \A q \in act : q.started_at <= s.started_at

\* WHERE user_id = ? AND is_active ORDER BY started_at DESC LIMIT 1
GetActiveSession(userID) ==
    LET act == {s \in sessions : s.user_id = userID /\ s.is_active}
    IN IF act = {} THEN NoSession
       ELSE CHOOSE s \in act : \A q \in act : q.started_at <= s.started_at

GetSessionExercises(sessionID) ==
    OrderByCreatedAt({se \in sessionExercises : se.session_id = sessionID})

GetExerciseSets(sessionExerciseID) ==
    OrderByCreatedAt({x \in exerciseSets :
                        x.session_exercise_id = sessionExerciseID})

\* The populated session, or nil (NoSession) with no error, or an error
GetActiveSessionWithExercises(userID) ==
    LET session == GetActiveSession(userID)
        ses == GetSessionExercises(session.id)
        workout == GetWorkout(userID, session.workout_id)
    IN IF session.id = NoId
       THEN [err |-> "", session |-> NoSession, exercises |-> <<>>]
       ELSE IF \E k \in 1..Len(ses) : GetExercise(ses[k].exercise_id).err /= ""
       THEN [err |-> "failed to get exercise", session |-> NoSession,
             exercises |-> <<>>]
       ELSE IF workout.err /= ""
       THEN [err |-> "failed to get workout", session |-> NoSession,
             exercises |-> <<>>]
       ELSE [err |-> "", session |-> session,
             exercises |->
                [k \in 1..Len(ses) |->
                    [se |-> ses[k],
                     exercise |-> GetExercise(ses[k].exercise_id).exercise,
                     sets |-> GetExerciseSets(ses[k].id)]]]

GetActiveSessionResponse(userID) ==
    LET a == GetActiveSessionWithExercises(userID)
    IN IF a.err /= ""
       THEN Response(404, "No active session", NoBody)
       ELSE Response(200, "", <<a>>)

\* GET /sessions/active
GetActiveSessionHandler(userID) ==
    /\ GetActiveSessionResponse(userID).code \in {200, 404}
    /\ UNCHANGED vars

\* models.ExerciseSet{SessionExerciseID, Reps, Weight, Completed: false} of
\* the fan-out, as stored by CreateExerciseSet
NewExerciseSet(id, sessionExerciseID, exercise) ==
    [id |-> id, session_exercise_id |-> sessionExerciseID,
     reps |-> exercise.reps, weight |-> exercise.weight,
     completed |-> FALSE, notes |-> NilNotes, created_at |-> now]

\* a fan-out that creates one set per exercise whatever the plan says
FanOutCountOne(exercise) == 1

\* number of sets the loop `for i := 0; i < exercise.Sets; i++` creates
FanOutCount(exercise) == IF exercise.sets > 0 THEN exercise.sets ELSE 0

\* loop control of the fan-out: on to the next exercise of the plan, or to
\* the final read once the plan is exhausted
Advance(r) ==
    IF r.i + 1 > Len(r.plan)
    THEN [r EXCEPT !.pc = "return", !.i = r.i + 1, !.j = 0, !.se = NoId]
    ELSE [r EXCEPT !.i = r.i + 1, !.j = 0, !.se = NoId]

\* the error, if any, of the statement an in-flight POST /sessions is about
\* to issue ("" when the statement succeeds)
CreateSessionError(r) ==
    IF r.pc = "getWorkout"
    THEN IF GetWorkout(r.user, r.workout_id).err /= ""
         THEN "failed to get workout" ELSE ""
    ELSE IF r.pc = "fanout" /\ r.se = NoId
    THEN IF EnforcesForeignKeys /\ (r.session_id \notin Ids(sessions)
                                    \/ r.plan[r.i].id \notin Ids(exercises))
         THEN "failed to create session exercise" ELSE ""
    ELSE IF r.pc = "fanout"
    THEN IF EnforcesForeignKeys /\ r.se \notin Ids(sessionExercises)
         THEN "failed to create exercise set" ELSE ""
    ELSE GetActiveSessionWithExercises(r.user).err

\* INSERT INTO workout_sessions: the workout_id reference of the schema
CreateSessionInsertError(workoutID) ==
    IF EnforcesForeignKeys /\ workoutID \notin Ids(workouts)
    THEN "failed to create session" ELSE ""

\* POST /sessions, first statement: CreateSession inserts the session row
CreateSession(userID, workoutID) ==
    /\ IF CreateSessionInsertError(workoutID) /= ""
       THEN UNCHANGED <<sessions, nextId, now, inflight>>
       ELSE LET session == [id |-> nextId.session, user_id |-> userID,
                            workout_id |-> workoutID, started_at |-> now,
                            ended_at |-> NullTime, is_active |-> TRUE]
            IN /\ sessions' = sessions \cup {session}
               /\ nextId' = [nextId EXCEPT !.session = @ + 1]
               /\ now' = now + 1
               /\ inflight' = inflight \cup
                    {[user |-> userID, workout_id |-> workoutID,
                      session_id |-> session.id, pc |-> "getWorkout",
                      plan |-> <<>>, i |-> 0, j |-> 0, se |-> NoId]}
    /\ UNCHANGED <<edge, useSQLite, workouts, exercises, sessionExercises,
                   exerciseSets, completing>>

\* second statement: GetWorkout(ctx, userID, workoutID) reads the plan
CreateSessionGetWorkout(r) ==
    /\ r.pc = "getWorkout"
    /\ inflight' = IF CreateSessionError(r) /= ""
                   THEN inflight \ {r}
                   ELSE (inflight \ {r}) \cup
                        {Advance([r EXCEPT
                            !.pc = "fanout",
                            !.plan = GetWorkout(r.user, r.workout_id).exercises])}
    /\ UNCHANGED <<edge, useSQLite, tables, nextId, now, completing>>

\* CreateSessionExercise(ctx, "", session.ID, exercise.ID) of the fan-out
CreateSessionInsertExercise(r) ==
    /\ r.pc = "fanout" /\ r.se = NoId
    /\ LET exercise == r.plan[r.i]
           se == [id |-> nextId.sessionExercise, session_id |-> r.session_id,
                  exercise_id |-> exercise.id]
           r1 == [r EXCEPT !.se = se.id, !.j = 0]
       IN IF CreateSessionError(r) /= ""
          THEN /\ inflight' = inflight \ {r}
               /\ UNCHANGED <<sessionExercises, nextId>>
          ELSE /\ sessionExercises' = sessionExercises \cup {se}
               /\ nextId' = [nextId EXCEPT !.sessionExercise = @ + 1]
               /\ inflight' = (inflight \ {r}) \cup
                    {IF FanOutCount(exercise) = 0 THEN Advance(r1) ELSE r1}
    /\ UNCHANGED <<edge, useSQLite, workouts, exercises, sessions, exerciseSets, now,
                   completing>>

\* CreateExerciseSet(ctx, "", set) of the fan-out
CreateSessionInsertSet(r) ==
    /\ r.pc = "fanout" /\ r.se /= NoId
    /\ LET exercise == r.plan[r.i]
           set == NewExerciseSet(nextId.exerciseSet, r.se, exercise)
           r1 == [r EXCEPT !.j = r.j + 1]
       IN IF CreateSessionError(r) /= ""
          THEN /\ inflight' = inflight \ {r}
               /\ UNCHANGED <<exerciseSets, nextId>>
          ELSE /\ exerciseSets' = exerciseSets \cup {set}
               /\ nextId' = [nextId EXCEPT !.exerciseSet = @ + 1]
               /\ inflight' = (inflight \ {r}) \cup
                    {IF r.j + 1 >= FanOutCount(exercise) THEN Advance(r1) ELSE r1}
    /\ UNCHANGED <<edge, useSQLite, workouts, exercises, sessions, sessionExercises,
                   now, completing>>

\* what POST /sessions answers once the fan-out is done:
\* return r.GetActiveSessionWithExercises(ctx, userID)
CreateSessionResponse(r) ==
    LET a == GetActiveSessionWithExercises(r.user)
    IN IF a.err /= ""
       THEN Response(500, a.err, NoBody)
       ELSE Response(201, "", <<a>>)

\* last statement of POST /sessions
CreateSessionReturn(r) ==
    /\ r.pc = "return"
    /\ CreateSessionResponse(r).code \in {201, 500}
    /\ inflight' = inflight \ {r}
    /\ UNCHANGED <<edge, useSQLite, tables, nextId, now, completing>>

\* UPDATE workout_sessions SET ended_at = ?, is_active = false
\*   WHERE id = ? AND user_id = ?
EndSessionRows(userID, id) ==
    {s \in sessions : s.id = id /\ s.user_id = userID}

\* an end that flips is_active instead of clearing it
EndedSessionFlipped(s, t) ==
    [s EXCEPT !.ended_at = t, !.is_active = ~s.is_active]

\* an end that writes ended_at and leaves is_active as it was
EndedSessionStillActive(s, t) == [s EXCEPT !.ended_at = t]

EndedSession(s, t) == [s EXCEPT !.ended_at = t, !.is_active = FALSE]

\* no row updated: Scan's ErrNoRows on the relational server, the
\* RowsAffected check on the embedded database
EndSessionError ==
    IF useSQLite THEN "session not found or access denied"
    ELSE "failed to end session: no rows in result set"

EndSessionResponse(userID, id) ==
    IF EndSessionRows(userID, id) = {}
    THEN Response(500, EndSessionError, NoBody)
    ELSE Response(200, "", <<EndedSession(Row(sessions, id), now)>>)

\* PUT /sessions/:id/end
EndSession(userID, id) ==
    /\ LET rows == EndSessionRows(userID, id)
       IN IF rows = {}
          THEN UNCHANGED <<sessions, now>>
          ELSE /\ sessions' = (sessions \ rows) \cup
                                {EndedSession(s, now) : s \in rows}
               /\ now' = now + 1
    /\ UNCHANGED <<edge, useSQLite, workouts, exercises, sessionExercises,
                   exerciseSets, nextId, inflight, completing>>

\* SELECT id FROM workout_sessions WHERE id = ? AND user_id = ?
getSessionForUser(userID, sessionID) ==
    \E s \in sessions : s.id = sessionID /\ s.user_id = userID

CreateSessionExerciseResponse(userID, sessionID, exerciseID) ==
    IF ~getSessionForUser(userID, sessionID)
    THEN Response(500, "session not found or access denied", NoBody)
    ELSE IF EnforcesForeignKeys /\ exerciseID \notin Ids(exercises)
    THEN Response(500, "failed to create session exercise", NoBody)
    ELSE Response(201, "",
                  <<[id |-> nextId.sessionExercise, session_id |-> sessionID,
                     exercise_id |-> exerciseID]>>)

\* POST /sessions/:id/exercises
CreateSessionExercise(userID, sessionID, exerciseID) ==
    /\ LET r == CreateSessionExerciseResponse(userID, sessionID, exerciseID)
       IN IF r.code /= 201
          THEN UNCHANGED <<sessionExercises, nextId>>
          ELSE /\ sessionExercises' = sessionExercises \cup {r.body[1]}
               /\ nextId' = [nextId EXCEPT !.sessionExercise = @ + 1]
    /\ UNCHANGED <<edge, useSQLite, workouts, exercises, sessions, exerciseSets, now,
                   inflight, completing>>

\* SELECT 1 FROM session_exercises se JOIN workout_sessions ws
\*   ON se.session_id = ws.id WHERE se.id = ? AND ws.user_id = ?
verifySessionExerciseAccess(userID, sessionExerciseID) ==
    \E se \in sessionExercises, ws \in sessions :
        /\ se.session_id = ws.id
        /\ se.id = sessionExerciseID
        /\ ws.user_id = userID

CreateExerciseSetResponse(userID, sessionExerciseID, reps, weight) ==
    IF ~verifySessionExerciseAccess(userID, sessionExerciseID)
    THEN Response(500, "session exercise not found or access denied", NoBody)
    ELSE Response(201, "",
                  <<[id |-> nextId.exerciseSet,
                     session_exercise_id |-> sessionExerciseID,
                     reps |-> reps, weight |-> weight,
                     completed |-> FALSE, notes |-> NilNotes,
                     created_at |-> now]>>)

\* POST /exercise-sets
CreateExerciseSet(userID, sessionExerciseID, reps, weight) ==
    /\ LET r == CreateExerciseSetResponse(userID, sessionExerciseID, reps,
                                          weight)
       IN IF r.code /= 201
          THEN UNCHANGED <<exerciseSets, nextId>>
          ELSE /\ exerciseSets' = exerciseSets \cup {r.body[1]}
               /\ nextId' = [nextId EXCEPT !.exerciseSet = @ + 1]
    /\ UNCHANGED <<edge, useSQLite, workouts, exercises, sessions, sessionExercises,
                   now, inflight, completing>>

\* SELECT session_exercise_id FROM exercise_sets WHERE id = ?
getSessionExerciseIDForSet(setID) ==
    IF setID \in Ids(exerciseSets)
    THEN Row(exerciseSets, setID).session_exercise_id
    ELSE NoId

\* the ownership check of UpdateExerciseSet: the session exercise of the set
\* is looked up only when the caller did not fill it in
UpdateExerciseSetAllowed(userID, set) ==
    IF set.session_exercise_id = NoId
    THEN /\ set.id \in Ids(exerciseSets)
         /\ verifySessionExerciseAccess(userID,
                                        getSessionExerciseIDForSet(set.id))
    ELSE verifySessionExerciseAccess(userID, set.session_exercise_id)

\* an update that keeps the stored notes when the request carries none
updateExerciseSetKeepNotes(set) ==
    {IF x.id = set.id
     THEN [x EXCEPT !.reps = set.reps, !.weight = set.weight,
                    !.completed = set.completed,
                    !.notes = IF set.notes = NilNotes THEN @ ELSE set.notes]
     ELSE x : x \in exerciseSets}

\* UPDATE exercise_sets SET reps, weight, completed, notes WHERE id = ?
updateExerciseSet(set) ==
    {IF x.id = set.id
     THEN [x EXCEPT !.reps = set.reps, !.weight = set.weight,
                    !.completed = set.completed, !.notes = set.notes]
     ELSE x : x \in exerciseSets}

\* PUT /exercise-sets/:id: binding:"required,min=1" and "required,min=0.01"
BindLogSetInput(reps, weight) == reps >= 1 /\ weight > 0

\* the models.ExerciseSet the PUT /exercise-sets/:id handler builds
LogSetInput(setID, reps, weight, notes) ==
    [id |-> setID, session_exercise_id |-> NoId, reps |-> reps,
     weight |-> weight, completed |-> TRUE, notes |-> notes]

UpdateExerciseSetResponse(userID, setID, reps, weight, notes) ==
    IF ~BindLogSetInput(reps, weight)
    THEN Response(400, "binding", NoBody)
    ELSE IF ~UpdateExerciseSetAllowed(userID,
                                      LogSetInput(setID, reps, weight, notes))
    THEN Response(500, "exercise set not found or access denied", NoBody)
    ELSE Response(200, "", NoBody)

\* PUT /exercise-sets/:id
UpdateExerciseSet(userID, setID, reps, weight, notes) ==
    /\ IF UpdateExerciseSetResponse(userID, setID, reps, weight, notes).code
            /= 200
       THEN UNCHANGED exerciseSets
       ELSE exerciseSets' =
                updateExerciseSet(LogSetInput(setID, reps, weight, notes))
    /\ UNCHANGED <<edge, useSQLite, workouts, exercises, sessions, sessionExercises,
                   nextId, now, inflight, completing>>

\* what PUT /exercise-sets/:id/complete answers when no other request writes
\* between its statements
CompleteExerciseSetResponse(userID, sessionExerciseID, setIndex) ==
    LET sets == GetExerciseSets(sessionExerciseID)
    IN IF ~verifySessionExerciseAccess(userID, sessionExerciseID)
       THEN Response(500, "session exercise not found or access denied",
                     NoBody)
       ELSE IF setIndex < 0 \/ setIndex >= Len(sets)
       THEN Response(500, "invalid set index", NoBody)
       ELSE IF ~UpdateExerciseSetAllowed(userID, sets[setIndex + 1])
       THEN Response(500, "exercise set not found or access denied", NoBody)
       ELSE Response(200, "", NoBody)

\* set := sets[setIndex]; set.Completed = true
CompletedSet(set) == [set EXCEPT !.completed = TRUE]

\* a read that clamps an index outside the sets to the first or last set
\* instead of refusing it
CompleteExerciseSetReadClamped(userID, sessionExerciseID, setIndex) ==
    /\ LET sets == GetExerciseSets(sessionExerciseID)
           k == IF setIndex < 0 THEN 0
                ELSE IF setIndex >= Len(sets) THEN Len(sets) - 1
                ELSE setIndex
       IN IF \/ ~verifySessionExerciseAccess(userID, sessionExerciseID)
             \/ Len(sets) = 0
          THEN UNCHANGED completing
          ELSE completing' = completing \cup
                    {[user |-> userID, set |-> CompletedSet(sets[k + 1])]}
    /\ UNCHANGED <<edge, useSQLite, tables, nextId, now, inflight>>

\* PUT /exercise-sets/:id/complete, up to its read: the access check, the
\* SELECT of the sets and the index check; the set that was read is kept for
\* the write
CompleteExerciseSetRead(userID, sessionExerciseID, setIndex) ==
    /\ LET sets == GetExerciseSets(sessionExerciseID)
       IN IF \/ ~verifySessionExerciseAccess(userID, sessionExerciseID)
             \/ setIndex < 0
             \/ setIndex >= Len(sets)
          THEN UNCHANGED completing
          ELSE completing' = completing \cup
                    {[user |-> userID, set |-> CompletedSet(sets[setIndex + 1])]}
    /\ UNCHANGED <<edge, useSQLite, tables, nextId, now, inflight>>

\* its write: UpdateExerciseSet(ctx, userID, set) stores every column of the
\* set as it was read
CompleteExerciseSetWrite(c) ==
    /\ c \in completing
    /\ completing' = completing \ {c}
    /\ IF UpdateExerciseSetAllowed(c.user, c.set)
       THEN exerciseSets' = updateExerciseSet(c.set)
       ELSE UNCHANGED exerciseSets
    /\ UNCHANGED <<edge, useSQLite, workouts, exercises, sessions, sessionExercises,
                   nextId, now, inflight>>

\* ------------------------------------------------------------------ history and progress
\* an ordering that puts the session that ended first in front
RECURSIVE OrderByEndedAtAsc(_)
OrderByEndedAtAsc(S) ==
    IF S = {} THEN <<>>
    ELSE LET m == CHOOSE r \in S : \A q \in S : r.ended_at <= q.ended_at
         IN <<m>> \o OrderByEndedAtAsc(S \ {m})

\* ORDER BY ended_at DESC
RECURSIVE OrderByEndedAtDesc(_)
OrderByEndedAtDesc(S) ==
    IF S = {} THEN <<>>
    ELSE LET m == CHOOSE r \in S : \A q \in S : q.ended_at <= r.ended_at
         IN <<m>> \o OrderByEndedAtDesc(S \ {m})

\* WHERE user_id = ? AND is_active = false AND ended_at IS NOT NULL
GetCompletedSessions(userID) ==
    OrderByEndedAtDesc({s \in sessions :
                            /\ s.user_id = userID
                            /\ s.is_active = FALSE
                            /\ s.ended_at /= NullTime})

GetCompletedSessionsResponse(userID) ==
    Response(200, "", GetCompletedSessions(userID))

\* GET /sessions/completed
GetCompletedSessionsHandler(userID) ==
    /\ GetCompletedSessionsResponse(userID).code = 200
    /\ UNCHANGED vars

\* DATE(es.created_at): the clock ticks twice a day
Date(t) == t \div 2

\* FROM exercise_sets es JOIN session_exercises se JOIN workout_sessions ws
\* JOIN exercises e: the joined rows of one set (none or one)
ProgressJoin(x) ==
    {[es |-> x, se |-> se, ws |-> ws, e |-> e] :
        se \in {r \in sessionExercises : x.session_exercise_id = r.id},
        ws \in sessions, e \in exercises}

\* a progress query that forgets the completed filter
ProgressRowsUnfiltered(userID) ==
    {j \in UNION {ProgressJoin(x) : x \in exerciseSets} :
        /\ j.se.session_id = j.ws.id
        /\ j.se.exercise_id = j.e.id
        /\ j.ws.user_id = userID}

\* ... ON the join conditions WHERE es.completed = true AND ws.user_id = ?
ProgressRows(userID) ==
    {j \in UNION {ProgressJoin(x) : x \in exerciseSets} :
        /\ j.se.session_id = j.ws.id
        /\ j.se.exercise_id = j.e.id
        /\ j.es.completed
        /\ j.ws.user_id = userID}

\* MAX(es.weight) over the rows of a group
MaxWeight(G) ==
    LET m == CHOOSE j \in G : \A q \in G : q.es.weight <= j.es.weight
    IN m.es.weight

\* SUM(es.weight * es.reps) over the rows of a group
RECURSIVE SumVolume(_)
SumVolume(G) ==
    IF G = {} THEN 0
    ELSE LET j == CHOOSE q \in G : TRUE
         IN j.es.weight * j.es.reps + SumVolume(G \ {j})

NameRank(name) ==
    CHOOSE k \in 1..Len(ExerciseNames) : ExerciseNames[k] = name

\* ORDER BY workout_date DESC, exercise_name
RECURSIVE OrderProgress(_)
OrderProgress(E) ==
    IF E = {} THEN <<>>
    ELSE LET m == CHOOSE r \in E : \A q \in E :
                    \/ q.date < r.date
                    \/ /\ q.date = r.date
                       /\ NameRank(r.exerciseName) <= NameRank(q.exerciseName)
         IN <<m>> \o OrderProgress(E \ {m})

\* GROUP BY e.name, DATE(es.created_at)
GetProgressData(userID) ==
    LET rows == ProgressRows(userID)
        Group(name, date) ==
            {j \in rows : j.e.name = name /\ Date(j.es.created_at) = date}
    IN OrderProgress(
        {[exerciseName |-> j.e.name,
          date |-> Date(j.es.created_at),
          maxWeight |-> MaxWeight(Group(j.e.name, Date(j.es.created_at))),
          totalVolume |-> SumVolume(Group(j.e.name, Date(j.es.created_at)))] :
            j \in rows})

GetProgressResponse(userID) == Response(200, "", GetProgressData(userID))

\* GET /progress
GetProgressHandler(userID) ==
    /\ GetProgressResponse(userID).code = 200
    /\ UNCHANGED vars

\* ------------------------------------------------------------------ system
\* an id a client can send: one that names a row, or one that names none
IdInputs(T) == Ids(T) \cup {NoId}

\* The session engine under every request of every user.
Next ==
    \/ \E u \in Users : GetActiveSessionHandler(u)
    \/ \E u \in Users : GetCompletedSessionsHandler(u)
    \/ \E u \in Users : GetProgressHandler(u)
    \/ \E u \in Users, w \in IdInputs(workouts) :
            /\ Cardinality(inflight) < MaxInflight
            /\ nextId.session <= MaxSessions
            /\ now < MaxTime
            /\ CreateSession(u, w)
    \/ \E r \in inflight : CreateSessionGetWorkout(r)
    \/ \E r \in inflight :
            /\ nextId.sessionExercise <= MaxSessionExercises
            /\ CreateSessionInsertExercise(r)
    \/ \E r \in inflight :
            /\ nextId.exerciseSet <= MaxSets
            /\ CreateSessionInsertSet(r)
    \/ \E r \in inflight : CreateSessionReturn(r)
    \/ \E u \in Users, s \in IdInputs(sessions) :
            /\ now < MaxTime
            /\ EndSession(u, s)
    \/ \E u \in Users, s \in IdInputs(sessions), e \in IdInputs(exercises) :
            /\ nextId.sessionExercise <= MaxSessionExercises
            /\ CreateSessionExercise(u, s, e)
    \/ \E u \in Users, se \in IdInputs(sessionExercises), in \in SetInputs :
            /\ nextId.exerciseSet <= MaxSets
            /\ CreateExerciseSet(u, se, in[1], in[2])
    \/ \E u \in Users, x \in IdInputs(exerciseSets), in \in LogSetInputs :
            UpdateExerciseSet(u, x, in[1], in[2], in[3])
    \/ \E u \in Users, se \in IdInputs(sessionExercises), k \in SetIndexes :
            /\ completing = {}
            /\ CompleteExerciseSetRead(u, se, k)
    \/ \E c \in completing : CompleteExerciseSetWrite(c)

Spec == Init /\ [][Next]_vars

\* Session starts on their own: the fan-out of every plan runs to its end,
\* next to reads of the active session and session ends.
StartNext ==
    \/ \E u \in Users : GetActiveSessionHandler(u)
    \/ \E u \in Users, w \in IdInputs(workouts) :
            /\ Cardinality(inflight) < MaxInflight
            /\ nextId.session <= MaxSessions
            /\ now < MaxTime
            /\ CreateSession(u, w)
    \/ \E r \in inflight : CreateSessionGetWorkout(r)
    \/ \E r \in inflight : CreateSessionInsertExercise(r)
    \/ \E r \in inflight : CreateSessionInsertSet(r)
    \/ \E r \in inflight : CreateSessionReturn(r)
    \/ \E u \in Users, s \in IdInputs(sessions) :
            /\ now < MaxTime
            /\ EndSession(u, s)

StartSpec == StartInit /\ [][StartNext]_vars

\* the request bodies of POST /exercises that a form of the frontend sends
WellFormedInputs ==
    {in \in ExerciseInputs : ValidExercise(in[1], in[2], in[3], in[4])}

\* The workout store next to the session engine: plans are created, edited
\* and deleted while sessions that were started from them exist.
StoreNext ==
    \/ \E u \in Users :
            /\ nextId.workout <= MaxWorkouts
            /\ CreateWorkout(u)
    \/ \E u \in Users, w \in IdInputs(workouts), in \in WellFormedInputs :
            /\ nextId.exercise <= MaxExercises
            /\ CreateExercise(u, w, in[1], in[2], in[3], in[4])
    \/ \E u \in Users, e \in IdInputs(exercises) : DeleteExercise(u, e)
    \/ \E u \in Users, w \in IdInputs(workouts) : DeleteWorkout(u, w)
    \/ \E u \in Users : GetActiveSessionHandler(u)
    \/ \E u \in Users, w \in IdInputs(workouts) :
            /\ inflight = {}
            /\ nextId.session <= MaxSessions
            /\ now < MaxTime
            /\ CreateSession(u, w)
    \/ \E r \in inflight : CreateSessionGetWorkout(r)
    \/ \E r \in inflight : CreateSessionInsertExercise(r)
    \/ \E r \in inflight : CreateSessionInsertSet(r)
    \/ \E r \in inflight : CreateSessionReturn(r)
    \/ \E u \in Users, s \in IdInputs(sessions) :
            /\ now < MaxTime
            /\ EndSession(u, s)

StoreSpec == StoreInit /\ [][StoreNext]_vars

\* Plans written by any client of the API: POST /exercises with every request
\* body, and sessions started from the plans that were stored.
PlanNext ==
    \/ \E u \in Users :
            /\ nextId.workout <= MaxWorkouts
            /\ CreateWorkout(u)
    \/ \E u \in Users, w \in IdInputs(workouts), in \in ExerciseInputs :
            /\ nextId.exercise <= MaxExercises
            /\ CreateExercise(u, w, in[1], in[2], in[3], in[4])
    \/ \E u \in Users, e \in IdInputs(exercises) : DeleteExercise(u, e)
    \/ \E u \in Users, w \in IdInputs(workouts) :
            /\ inflight = {}
            /\ nextId.session <= MaxSessions
            /\ now < MaxTime
            /\ CreateSession(u, w)
    \/ \E r \in inflight : CreateSessionGetWorkout(r)
    \/ \E r \in inflight : CreateSessionInsertExercise(r)
    \/ \E r \in inflight : CreateSessionInsertSet(r)
    \/ \E r \in inflight : CreateSessionReturn(r)

PlanSpec == StoreInit /\ [][PlanNext]_vars

\* main() from its first statement: NewDatabase chooses the backend, the
\* repositories are built, then sessions are started, read and ended.
BootInit ==
    /\ useSQLite = FALSE
    /\ boot = NotStarted
    /\ request = NoRequest
    /\ auth = NoAuthProvider
    /\ InitTables(StartExercises)

\* the statements of main() up to r.Run, one after the other
Startup ==
    \/ \E ok \in BOOLEAN : ParseConfig(ok)
    \/ \E ok \in BOOLEAN : NewWithConfig(ok)
    \/ \E ok \in BOOLEAN : Ping(ok)
    \/ \E opened \in BOOLEAN, created \in BOOLEAN :
            newSQLiteDatabase(opened, created)
    \/ NewRepositories

BootNext ==
    \/ Startup
    \/ \E u \in Users :
            /\ boot.pc = "serving"
            /\ GetActiveSessionHandler(u)
    \/ \E u \in Users, w \in IdInputs(workouts) :
            /\ boot.pc = "serving"
            /\ inflight = {}
            /\ nextId.session <= MaxSessions
            /\ now < MaxTime
            /\ CreateSession(u, w)
    \/ \E r \in inflight : CreateSessionGetWorkout(r)
    \/ \E r \in inflight : CreateSessionInsertExercise(r)
    \/ \E r \in inflight : CreateSessionInsertSet(r)
    \/ \E r \in inflight : CreateSessionReturn(r)
    \/ \E u \in Users, s \in IdInputs(sessions) :
            /\ boot.pc = "serving"
            /\ now < MaxTime
            /\ EndSession(u, s)

BootSpec == BootInit /\ [][BootNext]_vars

\* main() is one goroutine and each call of NewDatabase returns: startup
\* does not stop halfway
BootLiveSpec == BootSpec /\ WF_vars(Startup)

\* Requests with every kind of Authorization header go through
\* AuthMiddleware while tokens expire.
AuthNext ==
    \/ \E h \in Headers : Receive(h)
    \/ AuthMiddleware
    \/ Handler
    \/ Respond
    \/ now < MaxAuthTime /\ Tick

AuthSpec == Init /\ [][AuthNext]_vars

\* The frontend in one browser: the page is opened with nothing stored,
\* users log in and out, requests are answered and time passes.
FrontInit == StoreInit

FrontNext ==
    \/ Mount
    \/ Unmount
    \/ \E ok \in BOOLEAN, user \in FrontUsers : RefreshResponse(ok, user)
    \/ \E ok \in BOOLEAN, user \in FrontUsers, rememberMe \in BOOLEAN :
            login(ok, user, rememberMe)
    \/ \E ok \in BOOLEAN, user \in FrontUsers : register(ok, user)
    \/ logout
    \/ \E status \in {200, 401, 500} : ApiServiceRequest(status)
    \/ Activity
    \/ IdleTimeout
    \/ \E value \in Timeouts : updateSessionTimeout(value)
    \/ auth.clock < MaxClock /\ ClockTick

FrontSpec == FrontInit /\ [][FrontNext]_vars

\* a row of exercise_sets as the fan-out of a start leaves it
ExerciseSet(id, sessionExerciseID, reps, weight, createdAt) ==
    [id |-> id, session_exercise_id |-> sessionExerciseID, reps |-> reps,
     weight |-> weight, completed |-> FALSE, notes |-> NilNotes,
     created_at |-> createdAt]

\* u1 trained from workout 1 twice: session 1 (Bench only at the time, with a
\* second set added by hand, ended) on one day and session 2 (Bench and
\* Squat, active) on the next; u2 started session 3 from workout 2 on that
\* second day.  No set is completed yet.
SetInit ==
    /\ InitEdge
    /\ workouts = InitWorkouts
    /\ exercises = {Exercise(1, 1, "Bench", 1, 5, 100),
                    Exercise(2, 2, "Bench", 1, 5, 60),
                    Exercise(3, 1, "Squat", 1, 8, 80)}
    /\ sessions =
        {[id |-> 1, user_id |-> "u1", workout_id |-> 1, started_at |-> 1,
          ended_at |-> 2, is_active |-> FALSE],
         [id |-> 2, user_id |-> "u1", workout_id |-> 1, started_at |-> 3,
          ended_at |-> NullTime, is_active |-> TRUE],
         [id |-> 3, user_id |-> "u2", workout_id |-> 2, started_at |-> 4,
          ended_at |-> NullTime, is_active |-> TRUE]}
    /\ sessionExercises =
        {[id |-> 1, session_id |-> 1, exercise_id |-> 1],
         [id |-> 2, session_id |-> 2, exercise_id |-> 1],
         [id |-> 3, session_id |-> 2, exercise_id |-> 3],
         [id |-> 4, session_id |-> 3, exercise_id |-> 2]}
    /\ exerciseSets =
        {ExerciseSet(1, 1, 5, 100, 2), ExerciseSet(2, 1, 5, 100, 2),
         ExerciseSet(3, 2, 5, 100, 4), ExerciseSet(4, 3, 8, 80, 4),
         ExerciseSet(5, 4, 5, 60, 5)}
    /\ nextId = [workout |-> 3, exercise |-> 4, session |-> 4,
                 sessionExercise |-> 5, exerciseSet |-> 6]
    /\ now = 5
    /\ inflight = {}
    /\ completing = {}

\* Training: sets are logged and completed, by their owner and by others,
\* and the reads report them.
SetNext ==
    \/ \E u \in Users, x \in IdInputs(exerciseSets), in \in LogSetInputs :
            UpdateExerciseSet(u, x, in[1], in[2], in[3])
    \/ \E u \in Users, se \in IdInputs(sessionExercises), k \in SetIndexes :
            /\ completing = {}
            /\ CompleteExerciseSetRead(u, se, k)
    \/ \E c \in completing : CompleteExerciseSetWrite(c)
    \/ \E u \in Users : GetActiveSessionHandler(u)
    \/ \E u \in Users : GetCompletedSessionsHandler(u)
    \/ \E u \in Users : GetProgressHandler(u)

SetSpec == SetInit /\ [][SetNext]_vars

\* History: sessions are started one after another and ended, also more
\* than once, and the reads report them.
HistoryNext ==
    \/ \E u \in Users : GetActiveSessionHandler(u)
    \/ \E u \in Users : GetCompletedSessionsHandler(u)
    \/ \E u \in Users, w \in IdInputs(workouts) :
            /\ inflight = {}
            /\ nextId.session <= MaxHistorySessions
            /\ now < MaxHistoryTime
            /\ CreateSession(u, w)
    \/ \E r \in inflight : CreateSessionGetWorkout(r)
    \/ \E r \in inflight : CreateSessionInsertExercise(r)
    \/ \E r \in inflight : CreateSessionInsertSet(r)
    \/ \E r \in inflight : CreateSessionReturn(r)
    \/ \E u \in Users, s \in IdInputs(sessions) :
            /\ now < MaxHistoryTime
            /\ EndSession(u, s)

HistorySpec == Init /\ [][HistoryNext]_vars

\* ------------------------------------------------------------------ ownership
\* who owns a row, as the user_id columns and the references record it
SessionsOf(u) == {s \in sessions : s.user_id = u}

SessionExercisesOf(u) ==
    {se \in sessionExercises : \E s \in SessionsOf(u) : se.session_id = s.id}

ExerciseSetsOf(u) ==
    {x \in exerciseSets :
        \E se \in SessionExercisesOf(u) : x.session_exercise_id = se.id}

ExercisesOf(u) == {e \in exercises : OwnsWorkout(u, e.workout_id)}

ActiveSessionsOf(u) == {s \in SessionsOf(u) : s.is_active}

\* what a client can tell two error or success answers apart by
Outcome(r) == <<r.code, r.error>>

\* ------------------------------------------------------------------ claims

\* C1: in every reachable state each user owns at most one session with
\* is_active = true.
C1_AtMostOneActiveSession ==
    \A u \in Users : Cardinality(ActiveSessionsOf(u)) <= 1

\* C2: a createSession issued while the caller already has an active session
\* is refused: its first statement inserts no workout_sessions row.
C2_StartWhileActiveInsertsNothing ==
    [][\A u \in Users, w \in IdInputs(workouts) :
          (ActiveSessionsOf(u) /= {} /\ CreateSession(u, w))
              => sessions' = sessions]_vars

\* C3: of two createSession requests of one user that run concurrently, at
\* most one reports success (201).
C3_ConcurrentStartsOneSuccess ==
    \A r1 \in inflight, r2 \in inflight :
        (/\ r1 /= r2
         /\ r1.user = r2.user
         /\ r1.pc = "return"
         /\ r2.pc = "return")
            => ~(/\ CreateSessionResponse(r1).code = 201
                 /\ CreateSessionResponse(r2).code = 201)

\* C4: when a createSession on workout W with exercises E1..En is about to
\* report success, its session holds exactly n session exercises, the k-th
\* referencing Ek, and under it exactly Ek.sets sets, each with Ek's planned
\* reps and weight and completed = false.
C4_FanOutMatchesPlan ==
    \A r \in inflight :
        (r.pc = "return" /\ CreateSessionResponse(r).code = 201) =>
            LET plan == GetExercisesByWorkout(r.workout_id)
                ses == GetSessionExercises(r.session_id)
            IN /\ Len(ses) = Len(plan)
               /\ \A k \in 1..Len(ses) :
                    LET sets == GetExerciseSets(ses[k].id)
                    IN /\ ses[k].exercise_id = plan[k].id
                       /\ Len(sets) = plan[k].sets
                       /\ \A j \in 1..Len(sets) :
                            /\ sets[j].reps = plan[k].reps
                            /\ sets[j].weight = plan[k].weight
                            /\ sets[j].completed = FALSE

\* a start of a plan of two exercises, one of them of two sets, is about to
\* report success
C4_Witness ==
    \E r \in inflight :
        /\ r.pc = "return"
        /\ CreateSessionResponse(r).code = 201
        /\ Len(GetExercisesByWorkout(r.workout_id)) = 2
        /\ \E k \in 1..2 : GetExercisesByWorkout(r.workout_id)[k].sets = 2
        /\ Cardinality(SessionExercisesOf(r.user)) = 2

\* C5: GET /sessions/active never shows a caller an exercise of another
\* user: every exercise in the answer belongs to a workout of the caller.
C5_ActiveSessionShowsOwnExercises ==
    \A a \in Users :
        LET resp == GetActiveSessionResponse(a)
        IN resp.code = 200 =>
            \A k \in 1..Len(resp.body[1].exercises) :
                resp.body[1].exercises[k].exercise \in ExercisesOf(a)

\* C6: every mutating request of A that names a row owned by another user B
\* is answered with an error (and so changes nothing).
C6_ForeignIdsAreRefused ==
    \A a \in Users : \A b \in Users \ {a} :
        /\ \A s \in SessionsOf(b) : EndSessionResponse(a, s.id).code /= 200
        /\ \A x \in ExerciseSetsOf(b), in \in LogSetInputs :
              UpdateExerciseSetResponse(a, x.id, in[1], in[2], in[3]).code
                  /= 200
        /\ \A se \in SessionExercisesOf(b), k \in SetIndexes :
              CompleteExerciseSetResponse(a, se.id, k).code /= 200
        /\ \A se \in SessionExercisesOf(b), in \in SetInputs :
              CreateExerciseSetResponse(a, se.id, in[1], in[2]).code /= 201
        /\ \A s \in sessions, e \in exercises :
              (s \in SessionsOf(b) \/ e \in ExercisesOf(b))
                  => CreateSessionExerciseResponse(a, s.id, e.id).code /= 201

\* C7: for every request that takes an id, the answer A gets when the id
\* names a row of another user is the answer A gets when the id names no row.
C7_ForeignIdLooksLikeMissingId ==
    \A a \in Users : \A b \in Users \ {a} :
        /\ \A s \in SessionsOf(b) :
              Outcome(EndSessionResponse(a, s.id))
                  = Outcome(EndSessionResponse(a, NoId))
        /\ \A x \in ExerciseSetsOf(b), in \in LogSetInputs :
              Outcome(UpdateExerciseSetResponse(a, x.id, in[1], in[2], in[3]))
                  = Outcome(UpdateExerciseSetResponse(a, NoId, in[1], in[2],
                                                      in[3]))
        /\ \A se \in SessionExercisesOf(b), k \in SetIndexes :
              Outcome(CompleteExerciseSetResponse(a, se.id, k))
                  = Outcome(CompleteExerciseSetResponse(a, NoId, k))
        /\ \A se \in SessionExercisesOf(b), in \in SetInputs :
              Outcome(CreateExerciseSetResponse(a, se.id, in[1], in[2]))
                  = Outcome(CreateExerciseSetResponse(a, NoId, in[1], in[2]))
        /\ \A s \in SessionsOf(b), e \in IdInputs(exercises) :
              Outcome(CreateSessionExerciseResponse(a, s.id, e))
                  = Outcome(CreateSessionExerciseResponse(a, NoId, e))
        /\ \A s \in IdInputs(sessions), e \in ExercisesOf(b) :
              Outcome(CreateSessionExerciseResponse(a, s, e.id))
                  = Outcome(CreateSessionExerciseResponse(a, s, NoId))

\* C8: Ended is terminal and is entered only by the owner's successful
\* endSession: no step turns is_active from false to true, and a step that
\* turns it from true to false is an EndSession of the session's owner
\* answered 200.
C8_EndedIsTerminal ==
    [][\A s \in sessions : \A t \in sessions' :
          t.id = s.id =>
              /\ ~s.is_active => ~t.is_active
              /\ (s.is_active /\ ~t.is_active) =>
                    /\ EndSessionResponse(s.user_id, s.id).code = 200
                    /\ EndSession(s.user_id, s.id)]_vars

\* a session was ended and its owner has started another one since
C8_Witness ==
    \E s \in sessions, t \in sessions :
        /\ ~s.is_active
        /\ s.ended_at /= NullTime
        /\ t.user_id = s.user_id
        /\ t.started_at > s.ended_at

\* C9: ended_at is written once: no step changes the ended_at of a session
\* that is already ended.
C9_EndedAtWrittenOnce ==
    [][\A s \in sessions : \A t \in sessions' :
          (t.id = s.id /\ ~s.is_active) => t.ended_at = s.ended_at]_vars

\* C10: a createSession that fails leaves no session row behind: every
\* stored session that no open request is still working on was started from
\* a workout of its owner.
C10_FailedStartLeavesNoSession ==
    \A s \in sessions :
        (\A r \in inflight : r.session_id /= s.id)
            => OwnsWorkout(s.user_id, s.workout_id)

\* C11: a session start is one logical unit: whenever GET /sessions/active
\* shows a caller a session, that session holds a session exercise for every
\* exercise of its plan and every planned set under each of them.
C11_StartIsOneUnit ==
    \A u \in Users :
        LET resp == GetActiveSessionResponse(u)
        IN (resp.code = 200 /\ resp.body[1].session.id /= NoId) =>
            LET a == resp.body[1]
                plan == GetExercisesByWorkout(a.session.workout_id)
            IN /\ Len(a.exercises) = Len(plan)
               /\ \A k \in 1..Len(a.exercises) :
                    Len(a.exercises[k].sets) = FanOutCount(plan[k])

\* C12: snapshot on start: a step that edits a plan (creates or deletes an
\* exercise, deletes a workout) leaves every session that was started from a
\* workout of its owner as it was: the session, its session exercises and
\* their sets are unchanged, and GET /sessions/active answers the owner of an
\* active one as it did before the edit.
C12_PlanEditsLeaveSessionsAlone ==
    [][(exercises' /= exercises \/ ~(workouts \subseteq workouts')) =>
          \A s \in sessions :
              (/\ OwnsWorkout(s.user_id, s.workout_id)
               /\ \A r \in inflight : r.session_id /= s.id) =>
                  /\ s \in sessions'
                  /\ \A se \in sessionExercises :
                        se.session_id = s.id =>
                            /\ se \in sessionExercises'
                            /\ GetExerciseSets(se.id)' = GetExerciseSets(se.id)
                  /\ s.is_active =>
                        GetActiveSessionResponse(s.user_id)'
                            = GetActiveSessionResponse(s.user_id)]_vars

\* C13: on either backend a successful DELETE /workouts/:id removes the
\* workout and the exercises of its plan and nothing else: sessions started
\* from it, their session exercises and their sets stay as they were.
C13_DeleteWorkoutRemovesPlanOnly ==
    [][\A u \in Users, w \in Ids(workouts) :
          (DeleteWorkoutResponse(u, w).code = 200 /\ DeleteWorkout(u, w)) =>
              /\ workouts' = {x \in workouts : x.id /= w}
              /\ exercises' = {e \in exercises : e.workout_id /= w}
              /\ UNCHANGED <<sessions, sessionExercises, exerciseSets>>]_vars

\* C14: a completion by the owner with an index below 0 or not below the
\* number of sets of the session exercise is answered with the invalid-index
\* error, and no step that changes a set or leaves a write pending is such a
\* request.
C14_InvalidIndexIsRefused ==
    /\ [](\A u \in Users : \A se \in SessionExercisesOf(u) :
            \A k \in SetIndexes :
                (k < 0 \/ k >= Len(GetExerciseSets(se.id))) =>
                    Outcome(CompleteExerciseSetResponse(u, se.id, k))
                        = <<500, "invalid set index">>)
    /\ [][~UNCHANGED <<exerciseSets, completing>> =>
            \A u \in Users : \A se \in SessionExercisesOf(u) :
                \A k \in SetIndexes :
                    (k < 0 \/ k >= Len(GetExerciseSets(se.id))) =>
                        ~CompleteExerciseSetRead(u, se.id, k)]_vars

\* an owner's session exercise has two sets, the first one completed, and
\* the indexes -1 and 2 are refused
C14_Witness ==
    \E u \in Users : \E se \in SessionExercisesOf(u) :
        LET sets == GetExerciseSets(se.id)
        IN /\ Len(sets) = 2
           /\ sets[1].completed
           /\ CompleteExerciseSetResponse(u, se.id, -1).error
                = "invalid set index"
           /\ CompleteExerciseSetResponse(u, se.id, 2).error
                = "invalid set index"

\* C15: the write of a completion changes only the completed flag of the set
\* it read, setting it to true: reps, weight and notes of that set and every
\* other set stay as they are, and no step turns completed from true to
\* false.
C15_CompleteChangesOnlyTheFlag ==
    [][exerciseSets' /= exerciseSets =>
          /\ \A x \in exerciseSets : \A y \in exerciseSets' :
                (y.id = x.id /\ x.completed) => y.completed
          /\ \A c \in completing :
                CompleteExerciseSetWrite(c) =>
                    exerciseSets' = {IF x.id = c.set.id THEN CompletedSet(x)
                                     ELSE x : x \in exerciseSets}]_vars

C18_ActiveSessionIsReported ==
    \A u \in Users :
        LET act == ActiveSessionsOf(u)
            resp == GetActiveSessionResponse(u)
        IN (/\ act /= {}
            /\ \A s \in act : OwnsWorkout(u, s.workout_id)
            /\ \A r \in inflight : r.user /= u) =>
                /\ resp.code = 200
                /\ resp.body[1].session \in act
                /\ \A q \in act :
                        q.started_at <= resp.body[1].session.started_at
                /\ LET ses == GetSessionExercises(resp.body[1].session.id)
                       got == resp.body[1].exercises
                   IN /\ Len(got) = Len(ses)
                      /\ \A k \in 1..Len(ses) :
                            /\ got[k].se = ses[k]
                            /\ got[k].exercise.id = ses[k].exercise_id
                            /\ got[k].sets = GetExerciseSets(ses[k].id)

\* C19: a caller without a session with is_active = true is answered by
\* GET /sessions/active with success and no session, not with an error,
\* whatever ended sessions the caller has and whatever sessions others have.
C19_NoActiveSessionIsNone ==
    \A u \in Users :
        ActiveSessionsOf(u) = {} =>
            /\ GetActiveSessionResponse(u).code = 200
            /\ GetActiveSessionResponse(u).body[1].session = NoSession
            /\ GetActiveSessionResponse(u).body[1].exercises = <<>>

\* a caller whose only session is ended is told there is none while the
\* other user has an active one
C19_Witness ==
    \E u \in Users : \E v \in Users \ {u} :
        /\ SessionsOf(u) /= {}
        /\ ActiveSessionsOf(u) = {}
        /\ ActiveSessionsOf(v) /= {}
        /\ GetActiveSessionResponse(u).code = 200
        /\ GetActiveSessionResponse(u).body[1].session = NoSession

\* C20: GET /sessions/completed answers a caller with exactly the caller's
\* sessions that have is_active = false and an ended_at, each once, none of
\* them active or of another user, the one that ended last first.
C20_CompletedSessionsAreTheEndedOnes ==
    \A u \in Users :
        LET resp == GetCompletedSessionsResponse(u)
            ended == {s \in SessionsOf(u) :
                        ~s.is_active /\ s.ended_at /= NullTime}
        IN /\ resp.code = 200
           /\ Len(resp.body) = Cardinality(ended)
           /\ {resp.body[k] : k \in 1..Len(resp.body)} = ended
           /\ \A i \in 1..Len(resp.body) : \A j \in i..Len(resp.body) :
                resp.body[j].ended_at <= resp.body[i].ended_at

\* a caller has two ended sessions, the one started first ended last and is
\* shown first, and the other user has a session too
C20_Witness ==
    \E u \in Users : \E v \in Users \ {u} :
        /\ Len(GetCompletedSessions(u)) = 2
        /\ GetCompletedSessions(u)[1].ended_at
            > GetCompletedSessions(u)[2].ended_at
        /\ GetCompletedSessions(u)[1].started_at
            < GetCompletedSessions(u)[2].started_at
        /\ SessionsOf(v) /= {}

\* C21: every stored Exercise has a non-empty name, sets >= 1, reps >= 1 and
\* weight >= 0, because createExercise refuses any other input and stores
\* nothing
C21_StoredExercisesAreValid ==
    \A e \in exercises : ValidExercise(e.name, e.sets, e.reps, e.weight)

\* C26: the reps, weight and notes that a logSet stored stay in the set until
\* the next logSet on that set: every step that changes one of them is a
\* logSet on that set, in particular the write-back of a completion that read
\* the set earlier is not such a step.
C26_LoggedValuesSurviveCompletion ==
    [][exerciseSets' /= exerciseSets =>
          \A x \in exerciseSets : \A y \in exerciseSets' :
              (/\ y.id = x.id
               /\ <<y.reps, y.weight, y.notes>> /= <<x.reps, x.weight, x.notes>>)
                  => \E u \in Users, in \in LogSetInputs :
                        UpdateExerciseSet(u, x.id, in[1], in[2], in[3])]_vars

\* C27: a start that is answered 201 returns the session this start inserted:
\* its id is the id the start generated, its workout is the requested one and
\* its session exercises are rows of that session, also when the user has
\* another active session or another start of the same user is in flight.
C27_StartReturnsItsOwnSession ==
    \A r \in inflight :
        (r.pc = "return" /\ CreateSessionResponse(r).code = 201) =>
            LET a == CreateSessionResponse(r).body[1]
            IN /\ a.session.id = r.session_id
               /\ a.session.workout_id = r.workout_id
               /\ \A k \in 1 .. Len(a.exercises) :
                      a.exercises[k].se.session_id = r.session_id

\* C28: for every session is_active holds exactly when ended_at is null, so
\* each session of a user is either in the result of getCompletedSessions or
\* active, never both and never neither, and an active session is the result
\* of getActiveSession unless the user has an active session started later.
C28_ActiveIffNotEnded ==
    \A u \in Users : \A s \in SessionsOf(u) :
        LET completed == {GetCompletedSessions(u)[k] :
                            k \in 1 .. Len(GetCompletedSessions(u))}
            active == GetActiveSession(u)
        IN /\ s.is_active <=> s.ended_at = NullTime
           /\ s \in completed <=> ~s.is_active
           /\ s.is_active =>
                /\ active /= NoSession
                /\ active = s \/ (active.is_active
                                  /\ active.started_at > s.started_at)
           /\ ~s.is_active => active /= s

\* a user with an ended session, an active session that getActiveSession
\* returns and an older active session hidden behind it
C28_Witness ==
    \E u \in Users : \E s \in SessionsOf(u), t \in SessionsOf(u),
                        h \in SessionsOf(u) :
        /\ ~s.is_active /\ s.ended_at /= NullTime
        /\ t.is_active /\ GetActiveSession(u) = t
        /\ h.is_active /\ h.started_at < t.started_at

\* the backend that serves requests is open and every repository holds the
\* handle and the flag of that backend
OneBackendChosen ==
    /\ boot.db.pool /= boot.db.sqlite
    /\ useSQLite = boot.db.sqlite
    /\ \A repo \in {boot.workoutRepo, boot.sessionRepo} :
          /\ repo.useSQLite = useSQLite
          /\ repo.db = ~useSQLite
          /\ repo.sqlite = useSQLite

\* C22 as stated: startup ends with exactly one backend chosen, the
\* relational server exactly when configuration parsing, pool creation and
\* the ping all succeeded and otherwise the embedded database with its
\* schema created, and every repository operates on it.
C22_StartupChoosesOneBackend ==
    boot.pc \in {"serving", "exited"} =>
        /\ OneBackendChosen
        /\ ~useSQLite <=> (boot.config /\ boot.pool /\ boot.ping)
        /\ useSQLite => boot.schema

\* C22, amended: startup always ends, either serving or, when the embedded
\* database cannot be opened or its schema cannot be created, with the
\* process exiting and no backend; when it serves, exactly one backend is
\* chosen, the relational server exactly when configuration parsing, pool
\* creation and the ping all succeeded and otherwise the embedded database
\* with its schema created, every repository operates on it, and the choice
\* never changes afterwards.
C22_StartupChoosesOneBackendOrExits ==
    /\ <>(boot.pc \in {"serving", "exited"})
    /\ [](boot.pc = "serving" =>
            /\ OneBackendChosen
            /\ ~useSQLite <=> (boot.config /\ boot.pool /\ boot.ping)
            /\ useSQLite => boot.schema)
    /\ [](boot.pc = "exited" =>
            /\ ~(boot.config /\ boot.pool /\ boot.ping)
            /\ ~boot.schema
            /\ boot.workoutRepo = NoRepository
            /\ boot.sessionRepo = NoRepository)
    /\ [][boot.pc \in {"serving", "exited"} =>
            /\ boot' = boot
            /\ useSQLite' = useSQLite]_vars

\* the ping failed after the pool was created, the embedded database was
\* chosen, and a session has been started on it
C22_Witness ==
    /\ boot.pc = "serving"
    /\ boot.config /\ boot.pool /\ ~boot.ping
    /\ useSQLite /\ boot.schema
    /\ sessions /= {}

\* the header is the scheme Bearer, in any case, one space and a token that
\* is a JWT signed with the server's secret
BearerOfSignedToken(authHeader) ==
    /\ Len(authHeader) = 2
    /\ authHeader[1] \in {"Bearer", "bearer", "BEARER"}
    /\ authHeader[2] \in DOMAIN JWTs
    /\ JWTs[authHeader[2]].key = Secret

\* C23: the handler behind AuthMiddleware runs only for a request whose
\* Authorization header is 'Bearer <token>' with a token that validates
\* (signed with the secret and not expired when the middleware looks at it),
\* and the user id it reads from the context is the user id of the token's
\* claims; any other request is answered 401 and never reaches the handler.
C23_HandlerRunsOnlyForValidBearer ==
    /\ [](request.pc = "handler" \/ request.ran =>
            /\ BearerOfSignedToken(request.header)
            /\ request.ctx_user_id = JWTs[request.header[2]].user_id
            /\ request.ran =>
                  /\ request.user_id = JWTs[request.header[2]].user_id
                  /\ request.status = 200)
    /\ [][request.pc = "middleware" /\ request' /= request =>
            IF /\ BearerOfSignedToken(request.header)
               /\ now < JWTs[request.header[2]].exp
            THEN request'.pc = "handler"
            ELSE /\ request'.pc = "done"
                 /\ request'.status = 401
                 /\ ~request'.ran]_vars

\* a handler has run for u2's token under a lower-case scheme, at a time
\* when the tokens of shorter life have expired
C23_Witness ==
    /\ request.ran
    /\ request.header = <<"bearer", "u2.exp4">>
    /\ request.user_id = "u2"
    /\ now = 3

\* C24: from an authenticated state, a logout() call and a
\* 'liftoff:unauthorized' event that the API client raises on a 401 each
\* lead to the state where isAuthenticated is false, user is null and the
\* 'liftoff-auth' entry is absent from localStorage.
C24_LogoutAndUnauthorizedClearAuth ==
    [][(/\ auth' /= auth
        /\ isAuthenticated(auth)
        /\ logout \/ ApiServiceRequest(401)) =>
            /\ ~isAuthenticated(auth')
            /\ auth'.user = NoUser
            /\ auth'.stored = NoStoredAuth]_vars

\* the page was opened with a stored auth, so that /auth/me is still pending,
\* and before any idle interval could elapse nobody is authenticated and
\* nothing is stored any more: a logout or a 401 has cleared it
C24_Witness ==
    /\ auth.mounted
    /\ auth.refreshing
    /\ auth.refreshOf.token /= ""
    /\ auth.clock = 0
    /\ ~isAuthenticated(auth)
    /\ auth.user = NoUser
    /\ auth.stored = NoStoredAuth

\* C25: after a successful login isAdmin is true if the backend returned
\* isAdmin: true or the email of the user is admin@liftoff.local, and false
\* for every other user.
C25_AdminByFlagOrEmail ==
    [][auth' /= auth =>
          \A user \in FrontUsers, rememberMe \in BOOLEAN :
              login(TRUE, user, rememberMe) =>
                  (isAdmin(auth') <=> (user.isAdmin \/ user.email = AdminEmail))
      ]_vars

\* C29: once nobody is authenticated and 'liftoff-auth' is absent, as after
\* a logout() or a 'liftoff:unauthorized' event, it stays so until the next
\* successful login or register; a late response to /auth/me restores
\* nothing.
C29_LoggedOutUntilNextLogin ==
    [][(/\ auth' /= auth
        /\ auth.mounted /\ auth'.mounted
        /\ ~isAuthenticated(auth)
        /\ auth.stored = NoStoredAuth) =>
            \/ /\ ~isAuthenticated(auth')
               /\ auth'.user = NoUser
               /\ auth'.stored = NoStoredAuth
            \/ \E user \in FrontUsers, rememberMe \in BOOLEAN :
                    login(TRUE, user, rememberMe)
            \/ \E user \in FrontUsers : register(TRUE, user)]_vars

\* C30: while a user is authenticated with a token that has at most a day
\* to live, the user does not stay logged in for longer than
\* sessionTimeoutMinutes after the idle interval last began (the last
\* activity event, or the moment the token came within a day of its expiry),
\* no idle logout happens earlier than that, and no idle timer is left after
\* a logout.
C30_IdleLogout ==
    LET began == IF auth.lastEvent > auth.expiresAt - Day
                 THEN auth.lastEvent ELSE auth.expiresAt - Day
    IN /\ (isAuthenticated(auth) /\ auth.expiresAt - auth.clock <= Day) =>
              auth.clock - began <= auth.sessionTimeoutMinutes
       /\ auth.timer /= 0 =>
              /\ isAuthenticated(auth)
              /\ auth.timer = auth.lastEvent + auth.sessionTimeoutMinutes
====
